---- MODULE Spec2Model ----
(***************************************************************************)
(* Model of the per-file read engine of gdrivefs (src/src/http.rs):        *)
(* FileReadHandle (do_read / incref / decref / spawn), the engine loop of  *)
(* the thread started by spawn, the read-ahead queue and the buffer cache. *)
(*                                                                         *)
(* The byte at file position p is modelled by the number p, so a buffer    *)
(* is the sequence of the file positions it holds.  The buffer cache is    *)
(* the external type poolcache::PoolCache; its operations follow the       *)
(* contract of section 4.2 of the specification.                           *)
(*                                                                         *)
(* Callers follow the documented protocol of the handle: the handle is     *)
(* incref'd before it is used for reads, and decref is only called to      *)
(* match an earlier incref (open_count > 0).  open_count and               *)
(* the chunk size stay far below 2^32 within the bounds, so the u32        *)
(* arithmetic of the source never wraps here.                              *)
(***************************************************************************)
EXTENDS Integers, Sequences, FiniteSets, TLC

\* ---- bounds of the model -------------------------------------------------
ChunkSize == 2          \* constants::BLOCK_SIZE * read_block_multiplier
NumChunks == 2          \* user requests address chunks 0 .. NumChunks-1
MaxCacheBlocks == 2     \* file_read_cache_blocks ranges over 1..MaxCacheBlocks
MaxReadahead == 1       \* readahead_queue_size ranges over 0..MaxReadahead
MaxReqs == 2            \* user requests submitted in one run
MaxChan == 2            \* requests waiting in the channel
MaxRefs == 2            \* incref calls made in one run

\* ---- program constants ---------------------------------------------------
PoolCapacity == 10      \* poolcache::PoolCache::new(10)

\* The inputs of do_read: the first and the last offset of each chunk, and the
\* sizes that lie at and around the chunk boundary.
Offsets == { c * ChunkSize + d : c \in 0 .. (NumChunks - 1), d \in {0, ChunkSize - 1} }
Sizes == {0, 1, ChunkSize, ChunkSize + 1}

\* The lengths of the remote file.
FileLens == 0 .. (NumChunks * ChunkSize)

VARIABLES
  file_len,              \* length of the remote file behind the url
  cache_size,            \* options.file_read_cache_blocks
  readahead_queue_size,  \* options.readahead_queue_size
  handle,                \* "held": the FileReadHandle (the only Sender) exists
  open_count,            \* FileReadHandle.open_count
  n_incref, n_decref,    \* number of incref / decref calls made so far
  decref_ret,            \* result of the last decref: "Some" / "None"
  send_ret,              \* result of the last do_read: "Ok" / "Err"
  read_chan,             \* requests in flight in the mpsc channel
  next_id,               \* number of user requests accepted so far
  pc,                    \* position of the engine thread
  req,                   \* the request the engine is handling
  readahead,             \* VecDeque<u64> of offsets to read next
  keyed,                 \* cache entries [key, buf], least recently used first
  freelist,              \* buffers of the pool that carry no key
  buf,                   \* the buffer taken for the fetch in flight
  replies,               \* per user request, how often its reply was resolved
  last,                  \* the reply resolved most recently
  iter                   \* the current loop iteration: the id of its request,
                         \* the fetches it issued, the queue entries it cleared,
                         \* the bytes its buffer held when it was taken

vars == << file_len, cache_size, readahead_queue_size, handle, open_count, n_incref,
           n_decref, decref_ret, send_ret, read_chan, next_id, pc, req,
           readahead, keyed, freelist, buf, replies, last, iter >>

config == << file_len, cache_size, readahead_queue_size >>
refs == << handle, open_count, n_incref, n_decref, decref_ret >>
engine == << pc, req, readahead, keyed, freelist, buf, replies, last, iter >>

\* ---- requests --------------------------------------------------------------
\* FileReadRequest: reply is Some(..) for user requests (id >= 1) and None
\* for read-ahead requests (id = 0).
FileReadRequest(id, offset, size) == [id |-> id, offset |-> offset, size |-> size]

NoReq == FileReadRequest(-1, 0, 0)

is_readahead(r) == r.id = 0

NoReply == [id |-> 0, kind |-> "none", val |-> << >>]

NoIter == [id |-> -1, fetches |-> 0, cleared |-> 0, stale |-> 0]

\* The iteration that starts when the engine has chosen request r.
Taken(r) == [id |-> r.id, fetches |-> 0, cleared |-> 0, stale |-> 0]

\* FileReadRequest::error: resolves the reply sink, if there is one.
error(r, err) ==
  IF is_readahead(r)
  THEN UNCHANGED << replies, last >>
  ELSE /\ replies' = [replies EXCEPT ![r.id] = @ + 1]
       /\ last' = [id |-> r.id, kind |-> "error", val |-> err]

\* FileReadRequest::data
data(r, slice) ==
  IF is_readahead(r)
  THEN UNCHANGED << replies, last >>
  ELSE /\ replies' = [replies EXCEPT ![r.id] = @ + 1]
       /\ last' = [id |-> r.id, kind |-> "data", val |-> slice]

\* ---- helpers ---------------------------------------------------------------
Min(a, b) == IF a < b THEN a ELSE b

chunk_offset(r) == (r.offset \div ChunkSize) * ChunkSize

\* Mutant: the cross-chunk check lets a request run one byte over the chunk.
cross_chunk_m(r) == (r.offset + r.size) > (chunk_offset(r) + ChunkSize + 1)

cross_chunk(r) == (r.offset + r.size) > (chunk_offset(r) + ChunkSize)

Max(a, b) == IF a > b THEN a ELSE b

\* The n bytes of the file that start at position start.
FileBytes(start, n) == [i \in 1 .. n |-> start + i - 1]

\* The number of bytes a range request for [start, start + size - 1] yields:
\* the end may lie past the end of the file.
Available(start, size) == Max(0, Min(size, file_len - start))

\* ---- the buffer cache (poolcache::PoolCache) ---------------------------------
Keys(c) == { c[i].key : i \in 1 .. Len(c) }

contains_key(c, k) == k \in Keys(c)

IndexOf(c, k) == CHOOSE i \in 1 .. Len(c) : c[i].key = k

Without(c, i) == [j \in 1 .. (Len(c) - 1) |-> IF j < i THEN c[j] ELSE c[j + 1]]

\* get: the buffer under key k.
get_buf(c, k) == c[IndexOf(c, k)].buf

\* get marks the entry as the most recently used one.
get_touch(c, k) == Append(Without(c, IndexOf(c, k)), c[IndexOf(c, k)])

\* insert: evicts the least recently used entry when the keyed set is at the
\* capacity limit and moves its buffer to the free list.  Result: <<keyed, free>>.
insert(c, f, k, b) ==
  IF Len(c) >= PoolCapacity
  THEN << Append(Tail(c), [key |-> k, buf |-> b]), Append(f, Head(c).buf) >>
  ELSE << Append(c, [key |-> k, buf |-> b]), f >>

\* put: hands a buffer to the free list.
put(f, b) == Append(f, b)

\* take: None exactly when the free list is exhausted, else its first buffer.
take_none(f) == f = << >>

take_buf(f) == Head(f)

take_rest(f) == Tail(f)

\* ---- Init: the state returned by FileReadHandle::spawn ----------------------
Init ==
  /\ file_len \in FileLens
  /\ cache_size \in 1 .. MaxCacheBlocks
  /\ readahead_queue_size \in 0 .. MaxReadahead
  /\ handle = "held"
  /\ open_count = 0
  /\ n_incref = 0
  /\ n_decref = 0
  /\ decref_ret = "none"
  /\ send_ret = "none"
  /\ read_chan = << >>
  /\ next_id = 0
  /\ pc = "poll"
  /\ req = NoReq
  /\ readahead = << >>
  /\ keyed = << >>
  /\ freelist = [i \in 1 .. cache_size |-> << >>]
  /\ buf = << >>
  /\ replies = [i \in 1 .. MaxReqs |-> 0]
  /\ last = NoReply
  /\ iter = NoIter

Alive == pc \notin {"stopped", "panicked"}

\* ---- FileReadHandle ----------------------------------------------------------
incref ==
  /\ handle = "held"
  /\ n_incref < MaxRefs
  /\ open_count' = open_count + 1
  /\ n_incref' = n_incref + 1
  /\ UNCHANGED << config, handle, n_decref, decref_ret, send_ret, read_chan,
                  next_id, engine >>

\* Mutant: the handle is given up one reference early.
decref_none_m(count) == count <= 1

\* match self.open_count { 0 => None, _ => Some(self) }
decref_none(count) == count = 0

decref ==
  /\ handle = "held"
  /\ open_count > 0
  /\ open_count' = open_count - 1
  /\ n_decref' = n_decref + 1
  /\ IF decref_none(open_count')
     THEN decref_ret' = "None" /\ handle' = "dropped"
     ELSE decref_ret' = "Some" /\ handle' = handle
  /\ UNCHANGED << config, n_incref, send_ret, read_chan, next_id, engine >>

\* do_read: send fails when the receiver (the engine thread) is gone.
do_read ==
  /\ handle = "held"
  /\ open_count > 0
  /\ next_id < MaxReqs
  /\ Len(read_chan) < MaxChan
  /\ \E offset \in Offsets, size \in Sizes :
       IF Alive
       THEN /\ read_chan' = Append(read_chan, FileReadRequest(next_id + 1, offset, size))
            /\ next_id' = next_id + 1
            /\ send_ret' = "Ok"
       ELSE /\ send_ret' = "Err"
            /\ UNCHANGED << read_chan, next_id >>
  /\ UNCHANGED << config, refs, engine >>

\* ---- the engine loop (thread started by spawn) -------------------------------
\* The synthesized read-ahead request for the front offset of the queue.
readahead_request(offset) == FileReadRequest(0, offset, ChunkSize)

\* Mutant: an empty channel is taken for a closed one.
disconnected_m == TRUE

\* The channel is disconnected when its only Sender, the handle, was dropped.
disconnected == handle = "dropped"

\* Mutant: the channel hands out the request submitted last.
received_m(ch) == ch[Len(ch)]

\* Ok(req): the channel hands out the request that has waited longest.
received(ch) == Head(ch)

\* rx.try_recv(): a waiting request, else Disconnected (return), else Empty:
\* pop the read-ahead queue or go on to the blocking rx.recv().
try_recv ==
  /\ pc = "poll"
  /\ IF read_chan # << >>
     THEN /\ req' = received(read_chan)
          /\ read_chan' = Tail(read_chan)
          /\ pc' = "handle"
          /\ iter' = Taken(req')
          /\ UNCHANGED readahead
     ELSE IF disconnected
     THEN /\ pc' = "stopped"
          /\ UNCHANGED << req, read_chan, readahead, iter >>
     ELSE IF readahead # << >>
     THEN /\ req' = readahead_request(Head(readahead))
          /\ readahead' = Tail(readahead)
          /\ pc' = "handle"
          /\ iter' = Taken(req')
          /\ UNCHANGED read_chan
     ELSE /\ pc' = "recv"
          /\ UNCHANGED << req, read_chan, readahead, iter >>
  /\ UNCHANGED << config, refs, send_ret, next_id, keyed, freelist, buf, replies,
                  last >>

\* rx.recv(): blocks until a request arrives or the channel is closed.
recv ==
  /\ pc = "recv"
  /\ \/ /\ read_chan # << >>
        /\ req' = received(read_chan)
        /\ read_chan' = Tail(read_chan)
        /\ pc' = "handle"
        /\ iter' = Taken(req')
     \/ /\ read_chan = << >>
        /\ disconnected
        /\ pc' = "stopped"
        /\ UNCHANGED << req, read_chan, iter >>
  /\ UNCHANGED << config, refs, send_ret, next_id, readahead, keyed, freelist,
                  buf, replies, last >>

\* A panic unwinds the engine thread: the request in hand and the receiver,
\* with every request still queued in it, are dropped without a reply.
panic ==
  /\ pc' = "panicked"
  /\ req' = NoReq
  /\ read_chan' = << >>

\* &chunk_data[start..end] with end = min(start + size, chunk_data.len() - 1):
\* the set of outcomes, a panic or the slice delivered.  For an empty buffer
\* len() - 1 overflows: a panic with overflow checks, usize::MAX without.
Panics == [panic |-> TRUE, slice |-> << >>]

Delivers(slice) == [panic |-> FALSE, slice |-> slice]

slice_end(start, size, len) == Min(start + size, len - 1)

slice_outcomes(b, start, size) ==
  IF Len(b) = 0
  THEN {Panics} \cup (IF start + size = 0 THEN {Delivers(<< >>)} ELSE {})
  ELSE IF start > slice_end(start, size, Len(b))
  THEN {Panics}
  ELSE {Delivers(SubSeq(b, start + 1, slice_end(start, size, Len(b))))}

\* Mutant: the loop runs once more than the configured size.
schedule_rounds_m(n) == n + 1

\* for _ in 0..readahead_queue_size
schedule_rounds(n) == n

\* schedule readahead: the offsets pushed after serving a user request.
RECURSIVE schedule(_, _, _, _)
schedule(queue, c, readahead_offset, n) ==
  IF n = 0
  THEN queue
  ELSE schedule(IF ~contains_key(c, readahead_offset)
                THEN Append(queue, readahead_offset)
                ELSE queue,
                c, readahead_offset + ChunkSize, n - 1)

\* The loop body from "if req.is_readahead()" on, with the cache c and the
\* free list f as they are after the lookup (and the fetch, on a miss).
finish(c, f) ==
  IF is_readahead(req)
  THEN /\ pc' = "poll"
       /\ req' = NoReq
       /\ keyed' = c
       /\ freelist' = f
       /\ UNCHANGED << read_chan, readahead, replies, last >>
  ELSE \E out \in slice_outcomes(get_buf(c, chunk_offset(req)),
                                 req.offset - chunk_offset(req), req.size) :
         /\ keyed' = get_touch(c, chunk_offset(req))
         /\ freelist' = f
         /\ IF out.panic
            THEN /\ panic
                 /\ UNCHANGED << readahead, replies, last >>
            ELSE /\ data(req, out.slice)
                 /\ readahead' = schedule(readahead, keyed',
                                          chunk_offset(req) + ChunkSize,
                                          schedule_rounds(readahead_queue_size))
                 /\ pc' = "poll"
                 /\ req' = NoReq
                 /\ UNCHANGED read_chan

\* Mutant: an error reply ends the engine thread.
after_error_m == "stopped"

\* continue: after an error reply the loop starts its next iteration.
after_error == "poll"

\* Mutant: the buffer taken from the pool is used as it comes.
clear_m(b) == b

\* buf.clear()
clear(b) == << >>

\* Mutant: the lookup is skipped and every request is fetched.
cache_miss_m(c, r) == TRUE

\* if !buf_cache.contains_key(&chunk_offset)
cache_miss(c, r) == ~contains_key(c, chunk_offset(r))

\* Mutant: the queue survives a user miss.
clears_readahead_m(r) == FALSE

\* if !req.is_readahead() { readahead.clear() }
clears_readahead(r) == ~is_readahead(r)

\* The loop body up to the fetch: cross-chunk check and cache lookup.
handle_request ==
  /\ pc = "handle"
  /\ IF cross_chunk(req)
     THEN /\ error(req, "ENOSYS")
          /\ pc' = after_error
          /\ req' = NoReq
          /\ UNCHANGED << read_chan, readahead, keyed, freelist, buf, iter >>
     ELSE IF cache_miss(keyed, req)
     THEN /\ readahead' = IF clears_readahead(req) THEN << >> ELSE readahead
          /\ IF take_none(freelist)
             THEN /\ panic
                  /\ iter' = [iter EXCEPT !.cleared = Len(readahead) - Len(readahead')]
                  /\ UNCHANGED << freelist, buf >>
             ELSE /\ freelist' = take_rest(freelist)
                  /\ buf' = clear(take_buf(freelist))
                  /\ pc' = "fetch"
                  /\ iter' = [iter EXCEPT !.cleared = Len(readahead) - Len(readahead'),
                                           !.fetches = @ + 1,
                                           !.stale = Len(take_buf(freelist))]
                  /\ UNCHANGED << req, read_chan >>
          /\ UNCHANGED << keyed, replies, last >>
     ELSE finish(keyed, freelist) /\ UNCHANGED << buf, iter >>
  /\ UNCHANGED << config, refs, send_ret, next_id >>

\* reader.read_bytes returns Ok: read_to_end has appended the bytes of the
\* chunk that exist to the buffer, which is inserted under the chunk.
fetch_ok ==
  /\ pc = "fetch"
  /\ LET r == insert(keyed, freelist, chunk_offset(req),
                     buf \o FileBytes(chunk_offset(req),
                                      Available(chunk_offset(req), ChunkSize)))
     IN finish(r[1], r[2])
  /\ buf' = << >>
  /\ UNCHANGED << config, refs, send_ret, next_id, iter >>

\* Mutant: the failure path forgets to hand the buffer back.
fetch_err_m ==
  /\ pc = "fetch"
  /\ error(req, "EIO")
  /\ pc' = "poll"
  /\ req' = NoReq
  /\ buf' = << >>
  /\ UNCHANGED << config, refs, send_ret, next_id, read_chan, readahead, keyed,
                  freelist, iter >>

\* reader.read_bytes returns Err: the buffer, with whatever part of the body
\* was read before the failure, goes back to the free list.
fetch_err ==
  /\ pc = "fetch"
  /\ \E len \in 0 .. Available(chunk_offset(req), ChunkSize) :
       freelist' = put(freelist, buf \o FileBytes(chunk_offset(req), len))
  /\ buf' = << >>
  /\ error(req, "EIO")
  /\ pc' = after_error
  /\ req' = NoReq
  /\ UNCHANGED << config, refs, send_ret, next_id, read_chan, readahead, keyed,
                  iter >>

Next ==
  \/ incref
  \/ decref
  \/ do_read
  \/ try_recv
  \/ recv
  \/ handle_request
  \/ fetch_ok
  \/ fetch_err

Spec == Init /\ [][Next]_vars

\* ---- a sequential forward scan -----------------------------------------------
\* A configuration that meets the documented condition
\* readahead_queue_size < file_read_cache_blocks with more buffers than the
\* limit the cache is built with, and a file whose chunks are all full.
ScanCacheBlocks == PoolCapacity + 2

ScanReadahead == PoolCapacity + 1

ScanFileLen == (ScanReadahead + MaxReqs) * ChunkSize

InitScan ==
  /\ file_len = ScanFileLen
  /\ cache_size = ScanCacheBlocks
  /\ readahead_queue_size = ScanReadahead
  /\ handle = "held"
  /\ open_count = 0
  /\ n_incref = 0
  /\ n_decref = 0
  /\ decref_ret = "none"
  /\ send_ret = "none"
  /\ read_chan = << >>
  /\ next_id = 0
  /\ pc = "poll"
  /\ req = NoReq
  /\ readahead = << >>
  /\ keyed = << >>
  /\ freelist = [i \in 1 .. cache_size |-> << >>]
  /\ buf = << >>
  /\ replies = [i \in 1 .. MaxReqs |-> 0]
  /\ last = NoReply
  /\ iter = NoIter

\* The chunk read by the k-th request of the scan.
ScanOffset(k) == (k - 1) * ChunkSize

\* do_read of a caller that reads the file front to back, chunk after chunk.
scan_read ==
  /\ handle = "held"
  /\ open_count > 0
  /\ next_id < MaxReqs
  /\ Len(read_chan) < MaxChan
  /\ IF Alive
     THEN /\ read_chan' = Append(read_chan,
                                 FileReadRequest(next_id + 1,
                                                 ScanOffset(next_id + 1), 1))
          /\ next_id' = next_id + 1
          /\ send_ret' = "Ok"
     ELSE /\ send_ret' = "Err"
          /\ UNCHANGED << read_chan, next_id >>
  /\ UNCHANGED << config, refs, engine >>

\* The scan over a remote that answers every fetch.
NextScan ==
  \/ incref
  \/ decref
  \/ scan_read
  \/ try_recv
  \/ recv
  \/ handle_request
  \/ fetch_ok

SpecScan == InitScan /\ [][NextScan]_vars

TypeOK ==
  /\ pc \in {"poll", "recv", "handle", "fetch", "stopped", "panicked"}
  /\ handle \in {"held", "dropped"}
  /\ open_count \in 0 .. MaxRefs
  /\ next_id \in 0 .. MaxReqs
  /\ Len(read_chan) <= MaxChan

\* ---- vocabulary of the claims -----------------------------------------------
\* The chunk start of an offset, and the cross-chunk condition, as the claims
\* state them.
ChunkStart(offset) == offset - (offset % ChunkSize)

Spans(r) == r.offset + r.size > ChunkStart(r.offset) + ChunkSize

IsUser(r) == r.id >= 1

Halted == pc \in {"stopped", "panicked"}

Idle == pc = "recv" /\ read_chan = << >>

\* A step in which the engine issues a fetch.
IssuesFetch == pc # "fetch" /\ pc' = "fetch"

\* A step that resolves the reply of the request in hand with data.
RepliesData == IsUser(req) /\ replies' # replies /\ last'.kind = "data"

\* ---- C1 ------------------------------------------------------------------------
\* C1: every user read request that do_read accepted has its reply resolved
\* exactly once: never twice, no reply of a request that was not accepted, and
\* none left unresolved once the engine is idle (blocked on the empty channel)
\* or has ended.
C1_ResolvedExactlyOnce ==
  /\ \A id \in 1 .. MaxReqs : replies[id] <= 1
  /\ \A id \in 1 .. MaxReqs : id > next_id => replies[id] = 0
  /\ (Idle \/ Halted) => \A id \in 1 .. next_id : replies[id] = 1

\* ---- C2 ------------------------------------------------------------------------
\* C2: a user request with offset + size > chunkStart(offset) + chunkSize is
\* answered with ENOSYS, no fetch is issued for it, and the keyed cache, the
\* free list and the read-ahead queue stay as they were before it was taken.
C2_Step ==
  /\ (pc \in {"poll", "recv"} /\ pc' = "handle" /\ IsUser(req'))
       => (keyed' = keyed /\ freelist' = freelist /\ readahead' = readahead)
  /\ (pc = "handle" /\ IsUser(req) /\ Spans(req))
       => /\ pc' \in {"handle", "poll"}
          /\ keyed' = keyed /\ freelist' = freelist /\ readahead' = readahead
          /\ iter'.fetches = 0
          /\ pc' = "poll" =>
               /\ last' = [id |-> req.id, kind |-> "error", val |-> "ENOSYS"]
               /\ replies' = [replies EXCEPT ![req.id] = replies[req.id] + 1]

C2_CrossChunkRejected == [][C2_Step]_vars

C2_Witness == last.kind = "error" /\ last.val = "ENOSYS" /\ pc = "poll"

\* ---- C3 ------------------------------------------------------------------------
\* C3: the data delivered for a satisfied user request (offset, size) on a
\* chunk whose buffer has length L is the buffer at the indices
\* [offset - chunkStart, min(offset - chunkStart + size, L)).
C3_Step ==
  RepliesData =>
    LET chunk == get_buf(keyed', ChunkStart(req.offset))
        start == req.offset - ChunkStart(req.offset)
    IN last'.val = SubSeq(chunk, start + 1, Min(start + req.size, Len(chunk)))

C3_ExactSlice == [][C3_Step]_vars

\* ---- C4 ------------------------------------------------------------------------
\* C4: the cache never holds more than file_read_cache_blocks keyed entries,
\* and a request that misses while that many chunks are keyed is fetched and
\* inserted, evicting exactly the least recently used entry, whose buffer
\* moves to the free list.
C4_Step ==
  /\ Len(keyed') <= cache_size
  /\ (pc = "handle" /\ ~Spans(req) /\ ChunkStart(req.offset) \notin Keys(keyed)
        /\ Len(keyed) = cache_size /\ pc' # "handle")
       => pc' = "fetch"
  /\ (pc = "fetch" /\ Len(keyed) = cache_size
        /\ ChunkStart(req.offset) \in Keys(keyed'))
       => /\ Keys(keyed') = (Keys(keyed) \ {keyed[1].key}) \cup {ChunkStart(req.offset)}
          /\ Len(freelist') = Len(freelist) + 1
          /\ freelist'[Len(freelist')] = keyed[1].buf

C4_CapacityEviction == [][C4_Step]_vars

\* ---- C5 ------------------------------------------------------------------------
\* C5: after a user request at chunkStart is served, the read-ahead queue has
\* at most readahead_queue_size entries, each a chunk-aligned offset greater
\* than chunkStart, and the entries enqueued were not cached at that moment.
C5_Step ==
  RepliesData =>
    /\ Len(readahead') <= readahead_queue_size
    /\ \A i \in 1 .. Len(readahead') :
         /\ readahead'[i] % ChunkSize = 0
         /\ readahead'[i] > ChunkStart(req.offset)
    /\ \A i \in (Len(readahead) + 1) .. Len(readahead') :
         readahead'[i] \notin Keys(keyed')

C5_QueueAfterServe == [][C5_Step]_vars

\* ---- C6 ------------------------------------------------------------------------
\* C6: a user request that misses the cache empties the read-ahead queue before
\* its fetch is issued, and the queue stays empty while that fetch is in
\* flight, so nothing enqueued before the miss is prefetched after it and
\* nothing new is enqueued before the fetch; a read-ahead request that misses
\* leaves the queue as it is.
C6_Step ==
  /\ (pc = "handle" /\ IsUser(req) /\ ~Spans(req)
        /\ ChunkStart(req.offset) \notin Keys(keyed) /\ pc' # "handle")
       => (readahead' = << >> /\ iter'.cleared = Len(readahead))
  /\ (pc' = "fetch" /\ IsUser(req')) => readahead' = << >>
  /\ (pc = "handle" /\ ~IsUser(req) /\ ChunkStart(req.offset) \notin Keys(keyed))
       => readahead' = readahead

C6_MissClearsQueue == [][C6_Step]_vars

C6_Witness == pc = "fetch" /\ IsUser(req) /\ iter.cleared > 0 /\ readahead = << >>

\* ---- C7 ------------------------------------------------------------------------
\* C7: a fetch is issued only while handling a request whose chunk is not keyed
\* at that moment, so a request inside a keyed chunk is served without a fetch,
\* and no request gets more than one fetch.
C7_Step ==
  /\ IssuesFetch =>
       /\ pc = "handle"
       /\ req' = req
       /\ ChunkStart(req.offset) \notin Keys(keyed)
       /\ iter.fetches = 0
  /\ iter'.fetches <= 1
  /\ (pc = "fetch" /\ pc' # "fetch") => req' = NoReq
  /\ (pc = "handle" /\ ~Spans(req) /\ ChunkStart(req.offset) \in Keys(keyed))
       => pc' \in {"handle", "poll", "panicked"}

C7_NoFetchWhenKeyed == [][C7_Step]_vars

C7_Witness ==
  /\ pc = "poll"
  /\ iter.id >= 1
  /\ iter.fetches = 0
  /\ last = [id |-> iter.id, kind |-> "data", val |-> last.val]
  /\ replies[iter.id] = 1

\* ---- C8 ------------------------------------------------------------------------
\* C8: a decref returns None exactly when it matches the last outstanding
\* incref (as many decrefs as increfs) and Some(handle) before that; the None
\* drops the only sender, after which no read is accepted any more.
C8_Step ==
  /\ decref_ret' = "None" <=> (n_decref' >= 1 /\ n_decref' = n_incref')
  /\ decref_ret' = "Some" <=> (n_decref' >= 1 /\ n_decref' < n_incref')
  /\ decref_ret' = "None" => handle' = "dropped"
  /\ handle = "dropped" =>
       /\ next_id' = next_id
       /\ Len(read_chan') <= Len(read_chan)
       /\ handle' = "dropped"

C8_RefCounting == [][C8_Step]_vars

C8_Witness ==
  /\ decref_ret = "None"
  /\ n_incref = 2
  /\ n_decref = 2
  /\ handle = "dropped"

\* ---- C9 ------------------------------------------------------------------------
\* C9: when the fetch of a request fails, the buffer taken for it is back on
\* the free list, a user requester gets EIO and a read-ahead request gets no
\* reply, the keyed entries and their contents are unchanged, and nothing is
\* enqueued for read-ahead in that iteration.
FetchFails ==
  pc = "fetch" /\ pc' # "fetch" /\ ChunkStart(req.offset) \notin Keys(keyed')

C9_Step ==
  FetchFails =>
    /\ pc' = "poll"
    /\ Len(freelist') = Len(freelist) + 1
    /\ Len(freelist') + Len(keyed') = cache_size
    /\ keyed' = keyed
    /\ readahead' = readahead
    /\ IF IsUser(req)
       THEN /\ last' = [id |-> req.id, kind |-> "error", val |-> "EIO"]
            /\ replies' = [replies EXCEPT ![req.id] = replies[req.id] + 1]
       ELSE /\ last' = last
            /\ replies' = replies

C9_FetchFailure == [][C9_Step]_vars

C9_Witness == last.kind = "error" /\ last.val = "EIO" /\ pc = "poll"

TakesRequest == pc \in {"poll", "recv"} /\ pc' = "handle"

C11_Step ==
  /\ (TakesRequest /\ IsUser(req')) =>
       /\ read_chan # << >>
       /\ \A i \in 1 .. Len(read_chan) : req'.id <= read_chan[i].id
       /\ \A i \in 1 .. Len(read_chan') : req'.id < read_chan'[i].id
       /\ \A id \in 1 .. (req'.id - 1) : replies[id] = 1
  /\ (TakesRequest /\ ~IsUser(req')) =>
       /\ read_chan = << >>
       /\ pc = "poll"
       /\ readahead # << >>
       /\ req'.offset = Head(readahead)
  /\ \A i, j \in 1 .. MaxReqs : (i < j /\ replies'[j] >= 1) => replies'[i] >= 1

C11_FifoAndReadaheadLast == [][C11_Step]_vars

C11_Witness ==
  /\ pc = "handle"
  /\ req.id = 1
  /\ read_chan # << >>
  /\ read_chan[1].id = 2

\* ---- C12 -----------------------------------------------------------------------
\* C12: with readahead_queue_size = 0 the read-ahead queue is always empty, no
\* read-ahead request is synthesized, and every fetch is for the chunk of a
\* user request that missed the cache.
C12_ReadaheadDisabled ==
  readahead_queue_size = 0 =>
    /\ readahead = << >>
    /\ ~is_readahead(req)
    /\ iter.id # 0
    /\ pc = "fetch" =>
         (IsUser(req) /\ ChunkStart(req.offset) \notin Keys(keyed))

C12_Witness ==
  /\ readahead_queue_size = 0
  /\ pc = "poll"
  /\ last.kind = "data"
  /\ iter.id = last.id
  /\ iter.fetches = 1
  /\ readahead = << >>

\* ---- C13 -----------------------------------------------------------------------
\* C13: with file_read_cache_blocks >= 1, no request that needs a buffer for
\* its fetch finds the free list empty: take() never returns None and the
\* engine never aborts on the unwrap.
NeedsBuffer == pc = "handle" /\ ~cross_chunk(req) /\ cache_miss(keyed, req)

C13_TakeNeverNone ==
  (cache_size >= 1 /\ NeedsBuffer) => ~take_none(freelist)

\* ---- C14 -----------------------------------------------------------------------
\* C14: the offsets in the read-ahead queue are chunk-aligned and strictly
\* increasing from front to back, so no offset is queued twice, also after
\* consecutive cache hits.
C14_QueueAlignedIncreasing ==
  /\ \A i \in 1 .. Len(readahead) : readahead[i] % ChunkSize = 0
  /\ \A i, j \in 1 .. Len(readahead) : i < j => readahead[i] < readahead[j]

\* ---- C15 -----------------------------------------------------------------------
\* C15: a user request that lies within one chunk whose cached buffer is short
\* (0 <= L < chunk size, L = 0 included) is always answered with a data reply,
\* possibly short or empty, and never with an error, an abort, or no reply.
ServesShortChunk ==
  /\ pc \in {"handle", "fetch"}
  /\ pc' \notin {"handle", "fetch"}
  /\ IsUser(req)
  /\ ~Spans(req)
  /\ ChunkStart(req.offset) \in Keys(keyed')
  /\ Len(get_buf(keyed', ChunkStart(req.offset))) < ChunkSize

C15_Step ==
  ServesShortChunk =>
    /\ pc' = "poll"
    /\ replies' = [replies EXCEPT ![req.id] = 1]
    /\ last'.id = req.id
    /\ last'.kind = "data"

C15_ShortChunkGetsData == [][C15_Step]_vars

\* ---- C16 -----------------------------------------------------------------------
\* C16: neither a failed fetch (EIO) nor a spanning request (ENOSYS) stops the
\* engine: after the error the engine is at the top of its loop with the
\* channel, the cache and the queue as they were, and its next step takes the
\* next waiting request; the engine stops only when it finds the channel
\* empty and closed.
RejectsSpan == pc = "handle" /\ Spans(req) /\ pc' # pc

C16_Step ==
  /\ (RejectsSpan \/ FetchFails) =>
       /\ pc' = "poll"
       /\ read_chan' = read_chan
       /\ keyed' = keyed
       /\ readahead' = readahead
  /\ (pc = "poll" /\ read_chan # << >> /\ pc' # pc) =>
       (pc' = "handle" /\ req' = Head(read_chan))
  /\ (pc # "stopped" /\ pc' = "stopped") =>
       /\ pc \in {"poll", "recv"}
       /\ read_chan = << >>
       /\ handle = "dropped"

C16_ErrorsDoNotStop == [][C16_Step]_vars

C16_Witness ==
  /\ pc = "handle"
  /\ req.id = 2
  /\ last.kind = "error"
  /\ last.id = 1

\* ---- C17 -----------------------------------------------------------------------
\* C17: after the last reference is dropped the engine ends by reaching the
\* stopped state, and only that way: it ends with every request of the channel
\* taken, and once the channel is closed and empty it issues no further fetch
\* and takes nothing from the read-ahead queue.
C17_Step ==
  /\ (handle = "dropped" /\ ~Halted /\ Halted') =>
       (pc' = "stopped" /\ read_chan = << >>)
  /\ (handle = "dropped" /\ read_chan = << >> /\ pc \in {"poll", "recv"}) =>
       (pc' \in {pc, "stopped"} /\ readahead' = readahead)

C17_DrainsThenStops == [][C17_Step]_vars

\* ---- C18 -----------------------------------------------------------------------
\* C18: with readahead_queue_size < file_read_cache_blocks, during a sequential
\* forward scan no chunk that read-ahead put into the cache leaves the cache
\* before the user request for that chunk has been replied to.  (In the scan a
\* chunk fetched for a user request is replied to in the step that inserts it,
\* so a keyed chunk whose request has no reply was inserted by read-ahead.)
Evicted == Keys(keyed) \ Keys(keyed')

ScanRequestOf(k) == (k \div ChunkSize) + 1

C18_Step ==
  readahead_queue_size < cache_size =>
    \A k \in Evicted :
      ScanRequestOf(k) <= MaxReqs => replies[ScanRequestOf(k)] >= 1

C18_PrefetchedSurvives == [][C18_Step]_vars

C20_Step ==
  /\ \A i \in 1 .. Len(keyed') :
       keyed'[i].buf = FileBytes(keyed'[i].key, Available(keyed'[i].key, ChunkSize))
  /\ RepliesData =>
       \A i \in 1 .. Len(last'.val) :
         ChunkStart(last'.val[i]) = ChunkStart(req.offset)

C20_CachedContentIntegrity == [][C20_Step]_vars

C20_Witness ==
  /\ pc = "poll"
  /\ iter.stale > 0
  /\ iter.fetches = 1
  /\ last.id = iter.id
  /\ last.kind = "data"
  /\ last.val # << >>
  /\ keyed # << >>

====
